---- MODULE Spec2Model ----
(***************************************************************************)
(* State-machine model of the chess-apo game page (src/src/pages/Game.tsx, *)
(* latest iteration, completed by the parts of it that are kept in         *)
(* src/unnamed/part_004): the `games` row in the store, the broadcast      *)
(* channel, and for every browser client its React state (gameState, game, *)
(* playerColor, settings, the interval timer's closure).                   *)
(*                                                                         *)
(* Time is the value of `new Date().getTime()` in milliseconds.            *)
(* chess.js is an external library: a position is abstracted by the line   *)
(* of moves that led to it, a Chess object by the position it was built    *)
(* from (its FEN) and the moves made on it since (its history).            *)
(***************************************************************************)
EXTENDS Integers, Sequences, FiniteSets, TLC

\* ------------------------------------------------------------------ bounds
MaxPlies == 2        \* longest line of moves played on a board
MaxInFlight == 2     \* undelivered broadcasts per subscriber
MaxWrites == 4       \* store writes attempted by the participants after the seats are taken

\* ------------------------------------------------------- program constants
SecondsPerMinute == 60
MsPerSecond == 1000
DefaultTimeControl == 10
DefaultIncrement == 5

\* ------------------------------------------------------------------ inputs
Clients == {"p1", "p2", "p3"}
\* client ids are random UUIDs: up to renaming, the pages are opened in this order
Rank(c) == CASE c = "p1" -> 1 [] c = "p2" -> 2 [] c = "p3" -> 3
\* the instants at which the wall clock is read (ms)
Instants == {0, 3500, 600500}
\* what the settings dialog offers (a sample of its items)
SettingsChoices == {[time_control |-> 1, increment |-> 0]}
LegalMoves == {"quiet", "mate"}
Moves == LegalMoves \cup {"illegal"}

Null == "null"
NoTime == -1

\* ------------------------------------------------------------- chess.js
NewChess == [base |-> <<>>, hist |-> <<>>]
ChessFromFen(f) == [base |-> f, hist |-> <<>>]
Fen(g) == g.base \o g.hist
Turn(g) == IF Len(Fen(g)) % 2 = 0 THEN "w" ELSE "b"
EmptyPgn == [fen |-> <<>>, san |-> <<>>]
Pgn(g) == [fen |-> g.base, san |-> g.hist]
LoadPgn(p) == [base |-> p.fen, hist |-> p.san]
History(g) == g.hist
Undo(g) == [g EXCEPT !.hist = SubSeq(g.hist, 1, Len(g.hist) - 1)]
IsCheckmate(g) == Len(Fen(g)) > 0 /\ Fen(g)[Len(Fen(g))] = "mate"
ChessIsGameOver(g) == IsCheckmate(g)
MoveIsLegal(g, mv) == ~ChessIsGameOver(g) /\ mv \in LegalMoves
ChessMove(g, mv) == [g EXCEPT !.hist = Append(g.hist, mv)]

\* --------------------------------------------------------- the games row
Fields == {"id", "players", "current_turn", "pgn", "time_control", "increment",
           "pending_draw_offer", "pending_takeback_request", "pending_rematch",
           "game_result", "moves", "creator", "white_time", "black_time",
           "started_at", "white_player", "black_player", "score"}

ZeroScore == [white |-> 0, black |-> 0, draws |-> 0]

\* an absent row / a null gameState
NoGame == [id |-> Null, players |-> <<>>, current_turn |-> "white", pgn |-> EmptyPgn,
           time_control |-> 0, increment |-> 0,
           pending_draw_offer |-> Null, pending_takeback_request |-> Null,
           pending_rematch |-> Null, game_result |-> Null, moves |-> <<>>,
           creator |-> Null, white_time |-> 0, black_time |-> 0,
           started_at |-> NoTime, white_player |-> Null, black_player |-> Null,
           score |-> ZeroScore]

\* {...row, ...fields}
Merge(row, fields) == [k \in Fields |-> IF k \in DOMAIN fields THEN fields[k] ELSE row[k]]

\* supabase.from('games').update(fields).eq('id', id): no row, nothing updated
StoreUpdate(row, fields) == IF row = NoGame THEN NoGame ELSE Merge(row, fields)

SeqToSet(s) == {s[i] : i \in 1..Len(s)}

InitialState(c, isWhite, s) ==
    [NoGame EXCEPT !.id = "game", !.players = <<c>>, !.current_turn = "white",
                   !.pgn = EmptyPgn, !.time_control = s.time_control,
                   !.increment = s.increment, !.moves = <<>>, !.creator = c,
                   !.white_time = s.time_control * SecondsPerMinute,
                   !.black_time = s.time_control * SecondsPerMinute,
                   !.white_player = IF isWhite THEN c ELSE Null,
                   !.black_player = IF isWhite THEN Null ELSE c]

DefaultSettings == [time_control |-> DefaultTimeControl, increment |-> DefaultIncrement]

VARIABLES
    db,            \* the games row of this game id, NoGame when there is none
    now,           \* the wall clock (ms)
    pc,            \* per client: where its initialization effect stands
    existingGame,  \* per client: the row initializeGameState fetched
    subscribed,    \* per client: its channel subscription is live
    inbox,         \* per client: broadcasts sent to it and not yet delivered, oldest first
    gameState,     \* per client: useState gameState
    game,          \* per client: useState game (the Chess object of the board)
    playerColor,   \* per client: useState playerColor
    settings,      \* per client: useState settings
    showSettings,  \* per client: useState showSettings
    timerView,     \* per client: the gameState the running interval closes over
    writes,        \* store writes attempted after initialization
    failed         \* a store write of the session has returned an error

vars == <<db, now, pc, existingGame, subscribed, inbox, gameState, game,
          playerColor, settings, showSettings, timerView, writes, failed>>

InitWith(visitors) ==
    /\ db = NoGame
    /\ now = 0
    /\ pc = [c \in Clients |-> IF c \in visitors THEN "init" ELSE "away"]
    /\ existingGame = [c \in Clients |-> NoGame]
    /\ subscribed = [c \in Clients |-> FALSE]
    /\ inbox = [c \in Clients |-> <<>>]
    /\ gameState = [c \in Clients |-> NoGame]
    /\ game = [c \in Clients |-> NewChess]
    /\ playerColor = [c \in Clients |-> Null]
    /\ settings = [c \in Clients |-> DefaultSettings]
    /\ showSettings = [c \in Clients |-> FALSE]
    /\ timerView = [c \in Clients |-> NoGame]
    /\ writes = 0
    /\ failed = FALSE

\* two browsers open the page of the game
Init == InitWith({"p1", "p2"})

\* ------------------------------------------------------------ derived UI
\* useEffect on gameState.players: isWaiting is false exactly with two players
IsWaiting(c) == Len(gameState[c].players) # 2
\* the page past its "Initializing", settings and waiting screens
MainUI(c) == subscribed[c] /\ ~showSettings[c] /\ ~IsWaiting(c)

isGameOver(c) == gameState[c].game_result # Null \/ ChessIsGameOver(game[c])
canOfferDraw(c) == ~isGameOver(c) /\ gameState[c].pending_draw_offer = Null
canRequestTakeback(c) ==
    /\ ~isGameOver(c)
    /\ gameState[c].pending_takeback_request = Null
    /\ Len(gameState[c].moves) > 0
hasDrawOffer(c) ==
    gameState[c].pending_draw_offer # Null /\ gameState[c].pending_draw_offer # c
hasTakebackRequest(c) ==
    /\ gameState[c].pending_takeback_request # Null
    /\ gameState[c].pending_takeback_request # c

\* ------------------------------------------------------------- the channel
Subscribers == {d \in Clients : subscribed[d]}
CanSend(to, msg) == \A d \in to : Len(inbox[d]) < MaxInFlight
Send(to, msg) == [d \in Clients |-> IF d \in to THEN Append(inbox[d], msg) ELSE inbox[d]]

\* ------------------------------------------------- effects after a render
\* useEffect on [gameState.players, gameState.started_at]: with two players and
\* a start time the interval is restarted and closes over the new gameState
TimerAfter(c, g2, playersReplaced) ==
    IF /\ (playersReplaced \/ g2.started_at # gameState[c].started_at)
       /\ Len(g2.players) = 2
       /\ g2.started_at # NoTime
    THEN g2 ELSE timerView[c]
SettingsShownAfter(c, g2) == IF Len(g2.players) = 2 THEN FALSE ELSE showSettings[c]

\* setGameState(g2) followed by the effects of the next render
SetGameState(c, g2, playersReplaced) ==
    /\ gameState' = [gameState EXCEPT ![c] = g2]
    /\ timerView' = [timerView EXCEPT ![c] = TimerAfter(c, g2, playersReplaced)]
    /\ showSettings' = [showSettings EXCEPT ![c] = SettingsShownAfter(c, g2)]

\* ------------------------------------------------------------ the clock
AdvanceTime ==
    /\ \E t \in Instants : t > now /\ now' = t
    /\ UNCHANGED <<db, pc, existingGame, subscribed, inbox, gameState, game,
                   playerColor, settings, showSettings, timerView, writes, failed>>

\* ------------------------------------------------- initializeGameState
\* the select at the head of initializeGameState
InitFetch(c) ==
    /\ pc[c] \in {"init", "reinit"}
    /\ pc[c] = "init" => \A d \in Clients : Rank(d) < Rank(c) => pc[d] # "init"
    /\ existingGame' = [existingGame EXCEPT ![c] = db]
    /\ pc' = [pc EXCEPT ![c] = "fetched"]
    /\ UNCHANGED <<db, now, subscribed, inbox, gameState, game, playerColor,
                   settings, showSettings, timerView, writes, failed>>

\* a join that appends to the list the store holds at the write
JoinFieldsAppendStored(c, eg) ==
    [players |-> Append(db.players, c),
     started_at |-> now,
     white_player |-> IF eg.white_player # Null THEN eg.white_player
                      ELSE IF eg.black_player # Null THEN c ELSE Null,
     black_player |-> IF eg.black_player # Null THEN eg.black_player
                      ELSE IF eg.white_player # Null THEN c ELSE Null]
JoinFields(c, eg) ==
    [players |-> Append(eg.players, c),
     started_at |-> now,
     white_player |-> IF eg.white_player # Null THEN eg.white_player
                      ELSE IF eg.black_player # Null THEN c ELSE Null,
     black_player |-> IF eg.black_player # Null THEN eg.black_player
                      ELSE IF eg.white_player # Null THEN c ELSE Null]

\* insert of a new row; the primary key rejects a second row of the same id
InitCreate(c) ==
    /\ pc[c] = "fetched"
    /\ existingGame[c] = NoGame
    /\ IF db # NoGame
       THEN /\ pc' = [pc EXCEPT ![c] = "failed"]
            /\ UNCHANGED <<db, subscribed, gameState, playerColor, showSettings, timerView>>
       ELSE \E isWhite \in BOOLEAN :
            /\ db' = InitialState(c, isWhite, settings[c])
            /\ gameState' = [gameState EXCEPT ![c] = InitialState(c, isWhite, settings[c])]
            /\ playerColor' = [playerColor EXCEPT ![c] = IF isWhite THEN "white" ELSE "black"]
            /\ showSettings' = [showSettings EXCEPT ![c] = TRUE]
            /\ subscribed' = [subscribed EXCEPT ![c] = TRUE]
            /\ pc' = [pc EXCEPT ![c] = "ready"]
            /\ UNCHANGED timerView
    /\ UNCHANGED <<now, existingGame, inbox, game, settings, writes, failed>>

\* the row exists, has a free seat and this client is not in it: take the seat
InitJoin(c) ==
    /\ pc[c] = "fetched"
    /\ existingGame[c] # NoGame
    /\ Len(existingGame[c].players) < 2
    /\ c \notin SeqToSet(existingGame[c].players)
    /\ LET eg == existingGame[c]
           g2 == Merge(eg, JoinFields(c, eg))
       IN /\ CanSend(Subscribers, g2)
          /\ db' = StoreUpdate(db, JoinFields(c, eg))
          /\ SetGameState(c, g2, TRUE)
          /\ playerColor' = [playerColor EXCEPT
                               ![c] = IF eg.white_player # Null THEN "black" ELSE "white"]
          /\ inbox' = Send(Subscribers, g2)
    /\ subscribed' = [subscribed EXCEPT ![c] = TRUE]
    /\ pc' = [pc EXCEPT ![c] = "ready"]
    /\ UNCHANGED <<now, existingGame, game, settings, writes, failed>>

\* the row is full, or this client is already in it
InitView(c) ==
    /\ pc[c] = "fetched"
    /\ existingGame[c] # NoGame
    /\ ~(Len(existingGame[c].players) < 2 /\ c \notin SeqToSet(existingGame[c].players))
    /\ LET eg == existingGame[c]
       IN /\ SetGameState(c, eg, TRUE)
          /\ playerColor' = [playerColor EXCEPT
                               ![c] = IF eg.white_player = c THEN "white"
                                      ELSE IF eg.black_player = c THEN "black"
                                      ELSE playerColor[c]]
    /\ subscribed' = [subscribed EXCEPT ![c] = TRUE]
    /\ pc' = [pc EXCEPT ![c] = "ready"]
    /\ UNCHANGED <<db, now, existingGame, inbox, game, settings, writes, failed>>

\* ------------------------------------------------ broadcast 'game_state'
\* a reconciliation that replays the payload's moves on the local board
ReconcileReplaying(local, payload) ==
    [gameState |-> payload,
     game |-> IF payload.pgn # EmptyPgn
              THEN [local.game EXCEPT !.hist = local.game.hist \o payload.pgn.san]
              ELSE local.game]
\* the handler's effect on the client's session state and board
Reconcile(local, payload) ==
    [gameState |-> payload,
     game |-> IF payload.pgn # EmptyPgn THEN LoadPgn(payload.pgn) ELSE local.game]
Local(c) == [gameState |-> gameState[c], game |-> game[c]]

Deliver(c) ==
    /\ subscribed[c]
    /\ inbox[c] # <<>>
    /\ inbox' = [inbox EXCEPT ![c] = Tail(inbox[c])]
    /\ SetGameState(c, Reconcile(Local(c), Head(inbox[c])).gameState, TRUE)
    /\ game' = [game EXCEPT ![c] = Reconcile(Local(c), Head(inbox[c])).game]
    /\ UNCHANGED <<db, now, pc, existingGame, subscribed, playerColor, settings, writes, failed>>

\* ------------------------------------------------------------- makeMove
OtherTurn(g) == IF Turn(g) = "w" THEN "black" ELSE "white"
MoveLabel(g) == IF Turn(g) = "w" THEN "Blancs" ELSE "Noirs"
MovedWhiteTime(gs, g) ==
    IF Turn(g) = "b" THEN gs.white_time + gs.increment ELSE gs.white_time
MovedBlackTime(gs, g) ==
    IF Turn(g) = "w" THEN gs.black_time + gs.increment ELSE gs.black_time
MoveFields(gs, g, mv) ==
    [current_turn |-> OtherTurn(g),
     pgn |-> Pgn(ChessMove(ChessFromFen(Fen(g)), mv)),
     moves |-> Append(gs.moves, <<MoveLabel(g), mv>>),
     white_time |-> MovedWhiteTime(gs, g),
     black_time |-> MovedBlackTime(gs, g)]
MoveGuard(c) ==
    /\ gameState[c] # NoGame
    /\ ~IsWaiting(c)
    /\ gameState[c].game_result = Null
    /\ ~(Turn(game[c]) = "w" /\ playerColor[c] # "white")
    /\ ~(Turn(game[c]) = "b" /\ playerColor[c] # "black")

MakeMove(c, mv, ok) ==
    /\ MainUI(c)
    /\ MoveGuard(c)
    /\ MoveIsLegal(ChessFromFen(Fen(game[c])), mv)
    /\ Len(Fen(game[c])) < MaxPlies
    /\ writes < MaxWrites
    /\ writes' = writes + 1
    /\ LET newState == Merge(gameState[c], MoveFields(gameState[c], game[c], mv))
       IN IF ok
          THEN /\ CanSend(Subscribers, newState)
               /\ db' = StoreUpdate(db, newState)
               /\ inbox' = Send(Subscribers, newState)
               /\ game' = [game EXCEPT ![c] = ChessMove(ChessFromFen(Fen(game[c])), mv)]
          ELSE UNCHANGED <<db, inbox, game>>
    /\ failed' = (failed \/ ~ok)
    /\ UNCHANGED <<now, pc, existingGame, subscribed, gameState, playerColor,
                   settings, showSettings, timerView>>

\* ------------------------------------------------------ updateGameState
\* the write of `fields` and the broadcast of {...view, ...fields}; `view` is the
\* gameState the calling closure holds
\* an updateGameState that does not stop at the write's error: it broadcasts anyway
UpdateGameStateIgnoringError(view, fields, ok) ==
    /\ view # NoGame
    /\ writes < MaxWrites
    /\ CanSend(Subscribers, Merge(view, fields))
    /\ db' = IF ok THEN StoreUpdate(db, fields) ELSE db
    /\ inbox' = Send(Subscribers, Merge(view, fields))
    /\ writes' = writes + 1
    /\ failed' = (failed \/ ~ok)
\* an updateGameState that writes its caller's whole copy of the row
UpdateGameStateWholeRow(view, fields, ok) ==
    /\ view # NoGame
    /\ writes < MaxWrites
    /\ writes' = writes + 1
    /\ IF ok
       THEN /\ CanSend(Subscribers, Merge(view, fields))
            /\ db' = StoreUpdate(db, Merge(view, fields))
            /\ inbox' = Send(Subscribers, Merge(view, fields))
       ELSE UNCHANGED <<db, inbox>>
    /\ failed' = (failed \/ ~ok)
UpdateGameState(view, fields, ok) ==
    /\ view # NoGame
    /\ writes < MaxWrites
    /\ writes' = writes + 1
    /\ IF ok
       THEN /\ CanSend(Subscribers, Merge(view, fields))
            /\ db' = StoreUpdate(db, fields)
            /\ inbox' = Send(Subscribers, Merge(view, fields))
       ELSE UNCHANGED <<db, inbox>>
    /\ failed' = (failed \/ ~ok)

\* ------------------------------------------------- draw, takeback, resign
OfferDraw(c, ok) ==
    /\ MainUI(c) /\ ~isGameOver(c) /\ canOfferDraw(c)
    /\ playerColor[c] # Null
    /\ UpdateGameState(gameState[c], [pending_draw_offer |-> c], ok)
    /\ UNCHANGED <<now, pc, existingGame, subscribed, gameState, game, playerColor,
                   settings, showSettings, timerView>>

\* a response whose acceptance stores the draw and leaves the offer pending
DrawResponseKeepsOffer(accept) ==
    IF accept THEN [game_result |-> "1/2-1/2"] ELSE [pending_draw_offer |-> Null]
DrawResponse(accept) ==
    IF accept THEN [pending_draw_offer |-> Null, game_result |-> "1/2-1/2"]
    ELSE [pending_draw_offer |-> Null]

RespondToDrawOffer(c, accept, ok) ==
    /\ MainUI(c) /\ hasDrawOffer(c)
    /\ gameState[c].pending_draw_offer # Null
    /\ UpdateGameState(gameState[c], DrawResponse(accept), ok)
    /\ UNCHANGED <<now, pc, existingGame, subscribed, gameState, game, playerColor,
                   settings, showSettings, timerView>>

ResignResult(color) == IF color = "white" THEN "0-1" ELSE "1-0"

Resign(c, ok) ==
    /\ MainUI(c) /\ ~isGameOver(c)
    /\ playerColor[c] # Null
    /\ UpdateGameState(gameState[c], [game_result |-> ResignResult(playerColor[c])], ok)
    /\ UNCHANGED <<now, pc, existingGame, subscribed, gameState, game, playerColor,
                   settings, showSettings, timerView>>

RequestTakeback(c, ok) ==
    /\ MainUI(c) /\ ~isGameOver(c) /\ canRequestTakeback(c)
    /\ playerColor[c] # Null
    /\ UpdateGameState(gameState[c], [pending_takeback_request |-> c], ok)
    /\ UNCHANGED <<now, pc, existingGame, subscribed, gameState, game, playerColor,
                   settings, showSettings, timerView>>

ButLast(q) == SubSeq(q, 1, Len(q) - 1)
TakebackFields(gs, g) ==
    [pending_takeback_request |-> Null,
     pgn |-> Pgn(Undo(LoadPgn(Pgn(g)))),
     moves |-> ButLast(gs.moves),
     current_turn |-> OtherTurn(g)]

RespondToTakeback(c, accept, ok) ==
    /\ MainUI(c) /\ ~hasDrawOffer(c) /\ hasTakebackRequest(c)
    /\ gameState[c].pending_takeback_request # Null
    /\ Len(History(game[c])) > 0
    /\ IF accept
       THEN LET updatedState == Merge(gameState[c], TakebackFields(gameState[c], game[c]))
            IN /\ failed' = (failed \/ ~ok)
               /\ writes < MaxWrites
               /\ writes' = writes + 1
               /\ IF ok
                  THEN /\ CanSend(Subscribers, updatedState)
                       /\ db' = StoreUpdate(db, updatedState)
                       /\ game' = [game EXCEPT ![c] = Undo(LoadPgn(Pgn(game[c])))]
                       /\ SetGameState(c, updatedState, FALSE)
                       /\ inbox' = Send(Subscribers, updatedState)
                  ELSE UNCHANGED <<db, game, gameState, timerView, showSettings, inbox>>
       ELSE /\ UpdateGameState(gameState[c], [pending_takeback_request |-> Null], ok)
            /\ UNCHANGED <<game, gameState, timerView, showSettings>>
    /\ UNCHANGED <<now, pc, existingGame, subscribed, playerColor, settings>>

\* ---------------------------------------------------------------- rematch
RequestRematch(c, ok) ==
    /\ MainUI(c) /\ isGameOver(c)
    /\ playerColor[c] # Null
    /\ UpdateGameState(gameState[c], [pending_rematch |-> c], ok)
    /\ UNCHANGED <<now, pc, existingGame, subscribed, gameState, game, playerColor,
                   settings, showSettings, timerView>>

UpdatedScore(gs) ==
    [white |-> gs.score.white + (IF gs.game_result = "1-0" THEN 1 ELSE 0),
     black |-> gs.score.black + (IF gs.game_result = "0-1" THEN 1 ELSE 0),
     draws |-> gs.score.draws + (IF gs.game_result = "1/2-1/2" THEN 1 ELSE 0)]
RematchFields(gs, s, t) ==
    [pgn |-> EmptyPgn, moves |-> <<>>, current_turn |-> "white", game_result |-> Null,
     pending_rematch |-> Null, pending_draw_offer |-> Null,
     pending_takeback_request |-> Null,
     white_time |-> s.time_control * SecondsPerMinute,
     black_time |-> s.time_control * SecondsPerMinute,
     started_at |-> t,
     score |-> UpdatedScore(gs)]

RespondToRematch(c, accept, ok) ==
    /\ MainUI(c) /\ ~hasDrawOffer(c) /\ ~hasTakebackRequest(c)
    /\ gameState[c].pending_rematch # Null
    /\ IF accept
       THEN LET updatedState == Merge(gameState[c], RematchFields(gameState[c], settings[c], now))
            IN /\ failed' = (failed \/ ~ok)
               /\ writes < MaxWrites
               /\ writes' = writes + 1
               /\ IF ok
                  THEN /\ CanSend(Subscribers, updatedState)
                       /\ db' = StoreUpdate(db, updatedState)
                       /\ game' = [game EXCEPT ![c] = NewChess]
                       /\ gameState' = [gameState EXCEPT ![c] = updatedState]
                       \* startTimers() of the calling render, then the effect
                       /\ timerView' = [timerView EXCEPT
                            ![c] = IF updatedState.started_at # gameState[c].started_at
                                   THEN updatedState ELSE gameState[c]]
                       /\ inbox' = Send(Subscribers, updatedState)
                  ELSE UNCHANGED <<db, game, gameState, timerView, inbox>>
       ELSE /\ UpdateGameState(gameState[c], [pending_rematch |-> Null], ok)
            /\ UNCHANGED <<game, gameState, timerView>>
    /\ UNCHANGED <<now, pc, existingGame, subscribed, playerColor, settings, showSettings>>

\* ------------------------------------------------------------ startTimers
Max(a, b) == IF a >= b THEN a ELSE b
ElapsedSeconds(gs, t) ==
    (t - (IF gs.started_at # NoTime THEN gs.started_at ELSE t)) \div MsPerSecond
\* a clock that charges the elapsed time to the side that is not to move
TimeLeftChargesWaiting(side, gs, t) ==
    IF side = "white"
    THEN Max(0, gs.white_time - (IF gs.current_turn = "black" THEN ElapsedSeconds(gs, t) ELSE 0))
    ELSE Max(0, gs.black_time - (IF gs.current_turn = "white" THEN ElapsedSeconds(gs, t) ELSE 0))
TimeLeft(side, gs, t) ==
    IF side = "white"
    THEN Max(0, gs.white_time - (IF gs.current_turn = "white" THEN ElapsedSeconds(gs, t) ELSE 0))
    ELSE Max(0, gs.black_time - (IF gs.current_turn = "black" THEN ElapsedSeconds(gs, t) ELSE 0))
Flagged(gs, t) == TimeLeft("white", gs, t) = 0 \/ TimeLeft("black", gs, t) = 0
TimeoutResult(gs, t) == IF TimeLeft("white", gs, t) = 0 THEN "0-1" ELSE "1-0"

\* a firing of the interval that finds a clock at zero (any other firing only
\* refreshes the displayed clocks)
Tick(c, ok) ==
    /\ timerView[c] # NoGame
    /\ timerView[c].game_result = Null
    /\ Flagged(timerView[c], now)
    /\ UpdateGameState(timerView[c], [game_result |-> TimeoutResult(timerView[c], now)], ok)
    /\ timerView' = [timerView EXCEPT ![c] = NoGame]
    /\ UNCHANGED <<now, pc, existingGame, subscribed, gameState, game, playerColor,
                   settings, showSettings>>

\* ------------------------------------------------------- settings, leaving
\* a choice in the settings dialog; `settings` is a dependency of the
\* initialization effect, which runs again
ChangeSettings(c, s) ==
    /\ subscribed[c] /\ showSettings[c]
    /\ pc[c] = "ready"
    /\ s # settings[c]
    /\ settings' = [settings EXCEPT ![c] = s]
    /\ pc' = [pc EXCEPT ![c] = "reinit"]
    /\ UNCHANGED <<db, now, existingGame, subscribed, inbox, gameState, game,
                   playerColor, showSettings, timerView, writes, failed>>

\* the page is closed: cleanupGame deletes the row
Leave(c) ==
    /\ pc[c] = "ready"
    /\ db' = NoGame
    /\ pc' = [pc EXCEPT ![c] = "left"]
    /\ subscribed' = [subscribed EXCEPT ![c] = FALSE]
    /\ inbox' = [inbox EXCEPT ![c] = <<>>]
    /\ timerView' = [timerView EXCEPT ![c] = NoGame]
    /\ UNCHANGED <<now, existingGame, gameState, game, playerColor, settings,
                   showSettings, writes, failed>>

\* (with two browsers and no re-initialization the else branch of
\* initializeGameState, InitView, is never taken: it is part of NextJoin and NextLobby)
Next ==
    \/ AdvanceTime
    \/ \E c \in Clients : InitFetch(c) \/ InitCreate(c) \/ InitJoin(c)
    \/ \E c \in Clients : Deliver(c)
    \/ \E c \in Clients, mv \in Moves, ok \in BOOLEAN : MakeMove(c, mv, ok)
    \/ \E c \in Clients, ok \in BOOLEAN :
          OfferDraw(c, ok) \/ RequestTakeback(c, ok) \/ Resign(c, ok) \/ RequestRematch(c, ok)
    \/ \E c \in Clients, accept \in BOOLEAN, ok \in BOOLEAN :
          \/ RespondToDrawOffer(c, accept, ok)
          \/ RespondToTakeback(c, accept, ok)
          \/ RespondToRematch(c, accept, ok)
    \/ \E c \in Clients, ok \in BOOLEAN : Tick(c, ok)

\* two browsers on the page of one game
Spec == Init /\ [][Next]_vars

\* three browsers open the page of one game: the seats are raced for
InitThree == InitWith(Clients)
NextJoin ==
    \/ AdvanceTime
    \/ \E c \in Clients : InitFetch(c) \/ InitCreate(c) \/ InitJoin(c) \/ InitView(c)
    \/ \E c \in Clients : Deliver(c)
    \/ \E c \in Clients, ok \in BOOLEAN : MakeMove(c, "quiet", ok)
SpecJoin == InitThree /\ [][NextJoin]_vars

\* two browsers that may change the settings before the game starts and may close the page
NextLobby ==
    \/ AdvanceTime
    \/ \E c \in Clients : InitFetch(c) \/ InitCreate(c) \/ InitJoin(c) \/ InitView(c)
    \/ \E c \in Clients : Deliver(c)
    \/ \E c \in Clients, ok \in BOOLEAN : MakeMove(c, "quiet", ok)
    \/ \E c \in Clients, ok \in BOOLEAN : Resign(c, ok)
    \/ \E c \in Clients, s \in SettingsChoices : ChangeSettings(c, s)
    \/ \E c \in Clients : Leave(c)
SpecLobby == Init /\ [][NextLobby]_vars

\* ====================================================================== claims
Sides == {"white", "black"}
StoredTime(row, side) == IF side = "white" THEN row.white_time ELSE row.black_time
Opponent(side) == IF side = "white" THEN "black" ELSE "white"
Pending == {"pending_draw_offer", "pending_takeback_request", "pending_rematch"}
\* the rows a clock can be derived from: the stored one and every client's
Rows == {db} \cup {gameState[c] : c \in Clients} \cup {timerView[c] : c \in Clients}
\* instants at which a derived clock is compared
ClockSamples == {0, 3500, 599999, 600500, 900000}

\* C1: a move made by the side to move, at elapsed time e since the session
\* start, sets the mover's stored time to max(0, stored - e + increment) and
\* leaves the other side's stored time as it was.
C1_MoveChargesMover ==
    [][\A c \in Clients, mv \in Moves :
          (MakeMove(c, mv, TRUE) /\ db # NoGame /\ gameState[c] = db)
          => LET S == db.current_turn
                 e == ElapsedSeconds(db, now)
             IN /\ StoredTime(db', S) = Max(0, StoredTime(db, S) - e + db.increment)
                /\ StoredTime(db', Opponent(S)) = StoredTime(db, Opponent(S))]_vars

\* C2: once the store holds the time forfeit of the side to move, no move of
\* either participant changes the stored row.
C2_NoMoveAfterFlagFall ==
    [][(/\ db # NoGame
        /\ Flagged(db, now)
        /\ db.game_result = TimeoutResult(db, now)
        /\ \E c \in Clients, mv \in Moves : MakeMove(c, mv, TRUE))
       => db' = db]_vars

\* C3: once game_result of the stored row is set, no step changes it or
\* unsets it.
C3_OutcomeIsTerminal ==
    [][(db # NoGame /\ db.game_result # Null /\ db' # NoGame)
       => db'.game_result = db.game_result]_vars

\* C4: a move made by the participant a draw was offered to clears the
\* pending draw offer.
C4_MoveClearsDrawOffer ==
    [][\A c \in Clients, mv \in Moves :
          (/\ MakeMove(c, mv, TRUE)
           /\ db # NoGame
           /\ db.pending_draw_offer \notin {Null, c}
           /\ gameState[c].pending_draw_offer = db.pending_draw_offer)
          => db'.pending_draw_offer = Null]_vars

\* C5: an accept or decline made by the participant whose offer is pending
\* (draw, takeback or rematch) leaves the stored row unchanged.
C5_NoSelfResponse ==
    [][\A c \in Clients, accept \in BOOLEAN :
          (\/ RespondToDrawOffer(c, accept, TRUE) /\ db.pending_draw_offer = c
           \/ RespondToTakeback(c, accept, TRUE) /\ db.pending_takeback_request = c
           \/ RespondToRematch(c, accept, TRUE) /\ db.pending_rematch = c)
          => db' = db]_vars

\* C6: of the clients that race for the free seat only the one the store
\* keeps is a player: every client that holds a colour is a stored
\* participant, and no two clients hold the same colour.
C6_JoinRaceOneWinner ==
    /\ \A c \in Clients :
          (pc[c] = "ready" /\ playerColor[c] # Null /\ db # NoGame)
          => c \in SeqToSet(db.players)
    /\ \A c, d \in Clients :
          (c # d /\ playerColor[c] # Null) => playerColor[c] # playerColor[d]

\* C7: a move write whose writer observed another turn or move log than the
\* store holds at the write is rejected and leaves the stored row unchanged.
C7_StaleMoveRejected ==
    [][\A c \in Clients, mv \in Moves :
          (/\ MakeMove(c, mv, TRUE)
           /\ db # NoGame
           /\ (gameState[c].current_turn # db.current_turn \/ gameState[c].moves # db.moves))
          => db' = db]_vars

\* C8: at most one of pending_draw_offer, pending_takeback_request and
\* pending_rematch is set in the stored row.
C8_OnePendingNegotiation ==
    db # NoGame => Cardinality({k \in Pending : db[k] # Null}) <= 1

C10_ReconcileIdempotent ==
    \A c \in Clients : \A m \in SeqToSet(inbox[c]) :
        LET once == Reconcile(Local(c), m)
        IN /\ Reconcile(once, m) = once
           /\ once.gameState = m
\* a snapshot is about to reach a client whose session state and board differ from it
C10_Witness ==
    \E c \in Clients : \E m \in SeqToSet(inbox[c]) :
        /\ gameState[c] # NoGame /\ gameState[c] # m
        /\ m.pgn # EmptyPgn /\ game[c] # LoadPgn(m.pgn)
        /\ m.pending_draw_offer = Null /\ gameState[c].pending_draw_offer # Null

\* the line of moves the move log records, and the board it replays to
LogLine(moves) == [i \in 1..Len(moves) |-> moves[i][2]]
ReplayLog(moves) == [base |-> <<>>, hist |-> LogLine(moves)]

\* C11: the stored notation is the notation of the stored move log replayed
\* from the initial position, and it has as many plies as the log has entries.
C11_LogReplaysToNotation ==
    db # NoGame =>
        /\ db.pgn = Pgn(ReplayLog(db.moves))
        /\ Len(db.pgn.san) = Len(db.moves)

\* three browsers that race for the seats, may change the settings, may move
\* and may close the page
NextSeats ==
    \/ \E c \in Clients : InitFetch(c) \/ InitCreate(c) \/ InitJoin(c) \/ InitView(c)
    \/ \E c \in Clients : Deliver(c)
    \/ \E c \in Clients, ok \in BOOLEAN : MakeMove(c, "quiet", ok)
    \/ \E c \in Clients, s \in SettingsChoices : ChangeSettings(c, s)
    \/ \E c \in Clients : Leave(c)
SpecSeats == InitThree /\ [][NextSeats]_vars

\* C12: the stored participants list has at most two entries and holds no
\* participant twice.
C12_SeatsBounded ==
    /\ Len(db.players) <= 2
    /\ Cardinality(SeqToSet(db.players)) = Len(db.players)
\* both seats are taken and a client that also ran its join holds a colour
C12_Witness ==
    /\ Len(db.players) = 2
    /\ \E c \in Clients : playerColor[c] # Null /\ c \notin SeqToSet(db.players)

\* C13: the stored turn indicator flips on every accepted move, is reversed by
\* every accepted takeback, and is changed by no other step.
C13_TurnFollowsMoves ==
    [][(db # NoGame /\ db' # NoGame)
       => IF \/ \E c \in Clients, mv \in Moves : MakeMove(c, mv, TRUE)
             \/ \E c \in Clients : RespondToTakeback(c, TRUE, TRUE)
          THEN db'.current_turn = Opponent(db.current_turn)
          ELSE db'.current_turn = db.current_turn]_vars

\* three browsers: two offer and answer draws, the third arrives, watches and
\* may close the page
NextWatch ==
    \/ \E c \in Clients : InitFetch(c) \/ InitCreate(c) \/ InitJoin(c) \/ InitView(c)
    \/ \E c \in Clients : Deliver(c)
    \/ \E c \in Clients, ok \in BOOLEAN : OfferDraw(c, ok)
    \/ \E c \in Clients, accept \in BOOLEAN, ok \in BOOLEAN : RespondToDrawOffer(c, accept, ok)
    \/ \E c \in Clients : Leave(c)
SpecWatch == InitThree /\ [][NextWatch]_vars

\* a client that opened the page of a game whose two seats were taken
IsSpectator(c) ==
    /\ pc[c] = "ready"
    /\ db # NoGame /\ Len(db.players) = 2 /\ c \notin SeqToSet(db.players)
    /\ playerColor[c] = Null
\* the operations the page offers
OperationBy(c) ==
    \/ InitJoin(c)
    \/ \E mv \in Moves : MakeMove(c, mv, TRUE)
    \/ OfferDraw(c, TRUE) \/ RequestTakeback(c, TRUE) \/ Resign(c, TRUE) \/ RequestRematch(c, TRUE)
    \/ \E accept \in BOOLEAN :
          \/ RespondToDrawOffer(c, accept, TRUE)
          \/ RespondToTakeback(c, accept, TRUE)
          \/ RespondToRematch(c, accept, TRUE)
    \/ Leave(c)

\* C14: no operation of a spectator (join, move, offer, response, resignation,
\* closing the page) changes the stored row.
C14_SpectatorReadOnly ==
    [][\A c \in Clients : (IsSpectator(c) /\ OperationBy(c)) => db' = db]_vars

\* an operation of client c whose store write returns an error
FailedOperationBy(c) ==
    \/ \E mv \in Moves : MakeMove(c, mv, FALSE)
    \/ OfferDraw(c, FALSE) \/ RequestTakeback(c, FALSE) \/ Resign(c, FALSE)
    \/ RequestRematch(c, FALSE)
    \/ \E accept \in BOOLEAN :
          \/ RespondToDrawOffer(c, accept, FALSE)
          \/ RespondToTakeback(c, accept, FALSE)
          \/ RespondToRematch(c, accept, FALSE)

C16_OutcomeClearsNegotiation ==
    [][(\E c \in Clients : Resign(c, TRUE) \/ Tick(c, TRUE))
       => \A k \in Pending : db'[k] = Null]_vars

\* C17: a draw offer or a takeback request changes the stored row only while
\* its game_result is unset, a rematch request only while it is set.
C17_OfferLegality ==
    [][\A c \in Clients :
          /\ ((OfferDraw(c, TRUE) \/ RequestTakeback(c, TRUE)) /\ db.game_result # Null)
             => db' = db
          /\ (RequestRematch(c, TRUE) /\ db.game_result = Null)
             => db' = db]_vars

\* the participant the stored row assigns to a side
AssignedTo(row, side) == IF side = "white" THEN row.white_player ELSE row.black_player

\* C18: a move attempt made while the stored outcome is set, or by a client
\* that is not the participant assigned to the side to move, or with a move
\* that is illegal in the stored position, changes neither the stored row nor
\* the channel nor any client's session state.
C18_MoveRejected ==
    [][\A c \in Clients, mv \in Moves :
          (/\ MakeMove(c, mv, TRUE)
           /\ db # NoGame
           /\ \/ db.game_result # Null
              \/ AssignedTo(db, db.current_turn) # c
              \/ ~MoveIsLegal(LoadPgn(db.pgn), mv))
          => UNCHANGED <<db, inbox, gameState>>]_vars


\* C19: when a client handles a broadcast snapshot that is the row the store
\* holds, its board afterwards shows the position obtained by replaying the
\* snapshot's notation, an empty notation included.
C19_BoardFollowsSnapshot ==
    [][\A c \in Clients :
          (Deliver(c) /\ Head(inbox[c]) = db)
          => Fen(game'[c]) = Fen(LoadPgn(Head(inbox[c]).pgn))]_vars


\* C20: the time charged to the side to move is the time elapsed since the
\* last move: at the instant a move is accepted no time has yet run on the
\* new turn, so the clock of the side now to move reads its stored time.
C20_ChargeSinceLastMove ==
    [][\A c \in Clients, mv \in Moves :
          MakeMove(c, mv, TRUE)
          => /\ ElapsedSeconds(db', now') = 0
             /\ TimeLeft(db'.current_turn, db', now')
                  = (IF db'.current_turn = "white" THEN db'.white_time
                     ELSE db'.black_time)]_vars


\* C21: a clock tick that acts while the stored outcome is unset finds the
\* side to move at zero and stores the decisive win of the opposite side; a
\* tick while the stored outcome is set changes neither the row nor the channel.
C21_TickForfeits ==
    [][\A c \in Clients :
          Tick(c, TRUE)
          => IF db.game_result # Null
             THEN UNCHANGED <<db, inbox>>
             ELSE /\ TimeLeft(db.current_turn, db, now) = 0
                  /\ db'.game_result = ResignResult(db.current_turn)]_vars


\* C22: an accepted move that leaves a position the rules report as over
\* (here: checkmate) stores the outcome, the win of the side that moved.
C22_TerminalMoveEndsSession ==
    [][\A c \in Clients, mv \in Moves :
          (MakeMove(c, mv, TRUE) /\ ChessIsGameOver(game'[c]))
          => db'.game_result = (IF Turn(game[c]) = "w" THEN "1-0" ELSE "0-1")]_vars


\* C23: an accepted move made when the clock of the side that moves has run
\* down to zero stores, in that same write, the win of the opposite side.
C23_MoveForfeitsOnTime ==
    [][\A c \in Clients, mv \in Moves :
          (/\ MakeMove(c, mv, TRUE)
           /\ TimeLeft(db.current_turn, db, now) = 0)
          => db'.game_result = ResignResult(db.current_turn)]_vars


\* the side a move-log entry names
SideOfEntry(entry) == IF entry[1] = "Blancs" THEN "white" ELSE "black"

\* C24: an accepted takeback removes exactly the last ply from the stored
\* notation and from the stored move log, gives the turn back to the side
\* that made the removed move, clears the takeback request and leaves both
\* stored clocks as they were.
C24_TakebackEffect ==
    [][\A c \in Clients :
          RespondToTakeback(c, TRUE, TRUE)
          => /\ Len(db.moves) > 0 /\ Len(db.pgn.san) > 0
             /\ db'.pgn = [db.pgn EXCEPT !.san = ButLast(db.pgn.san)]
             /\ db'.moves = ButLast(db.moves)
             /\ db'.current_turn = SideOfEntry(db.moves[Len(db.moves)])
             /\ db'.pending_takeback_request = Null
             /\ db'.white_time = db.white_time
             /\ db'.black_time = db.black_time]_vars


\* what the response panel of a client answers when a button of it is pressed
AnswersDrawOffer(c) == MainUI(c) /\ hasDrawOffer(c)
AnswersTakeback(c) ==
    MainUI(c) /\ ~hasDrawOffer(c) /\ hasTakebackRequest(c) /\ Len(History(game[c])) > 0
AnswersRematch(c) ==
    /\ MainUI(c) /\ ~hasDrawOffer(c) /\ ~hasTakebackRequest(c)
    /\ gameState[c].pending_rematch # Null
\* every broadcast sent has been handled by every subscriber
Quiescent == \A d \in Clients : inbox[d] = <<>>
\* the participants of the stored row other than `by`
OtherParticipants(by) == SeqToSet(db.players) \ {by}

\* the stored offers can be answered: once every broadcast is handled, the
\* other participant's panel answers the stored offer (or an offer shown
\* before it)
OffersAnswerable ==
    (db # NoGame /\ Len(db.players) = 2 /\ Quiescent)
    => /\ db.pending_draw_offer # Null
          => \E c \in OtherParticipants(db.pending_draw_offer) : AnswersDrawOffer(c)
       /\ db.pending_takeback_request # Null
          => \E c \in OtherParticipants(db.pending_takeback_request) :
                AnswersDrawOffer(c) \/ AnswersTakeback(c)
       /\ db.pending_rematch # Null
          => \E c \in OtherParticipants(db.pending_rematch) :
                AnswersDrawOffer(c) \/ hasTakebackRequest(c) \/ AnswersRematch(c)
\* a stored decline clears the offer it answers and nothing else of the row
DeclineClearsOnly ==
    \A c \in Clients :
       /\ RespondToDrawOffer(c, FALSE, TRUE) => db' = [db EXCEPT !.pending_draw_offer = Null]
       /\ RespondToTakeback(c, FALSE, TRUE) => db' = [db EXCEPT !.pending_takeback_request = Null]
       /\ RespondToRematch(c, FALSE, TRUE) => db' = [db EXCEPT !.pending_rematch = Null]

\* C25: a pending offer of any kind can always be declined by the other
\* participant, the decline resets that offer and changes nothing else of the
\* stored row, and no reachable state holds an offer that can be neither
\* accepted nor declined.
C25_OfferCanBeDeclined == []OffersAnswerable /\ [][DeclineClearsOnly]_vars


\* C26: accepting a pending draw offer, by the participant who did not make
\* it and while the stored outcome is unset, stores the draw and clears the
\* offer in the same write.
C26_DrawAcceptance ==
    [][\A c \in Clients :
          (/\ RespondToDrawOffer(c, TRUE, TRUE)
           /\ db.pending_draw_offer # Null
           /\ c \in OtherParticipants(db.pending_draw_offer)
           /\ db.game_result = Null)
          => /\ db'.game_result = "1/2-1/2"
             /\ db'.pending_draw_offer = Null]_vars
\* a draw has been agreed: the stored outcome is the draw, with no offer left
C26_Witness ==
    /\ db # NoGame
    /\ db.game_result = "1/2-1/2"
    /\ db.pending_draw_offer = Null
    /\ \E c \in Clients : gameState[c].pending_draw_offer # Null


\* C27: a resignation while the stored session is active (two participants,
\* outcome unset) stores the win of the side opposing the resigner; a
\* resignation in any other state leaves the stored row as it is.
C27_ResignOnlyWhileActive ==
    [][\A c \in Clients :
          Resign(c, TRUE)
          => IF db # NoGame /\ Len(db.players) = 2 /\ db.game_result = Null
             THEN db'.game_result =
                     ResignResult(IF db.white_player = c THEN "white" ELSE "black")
             ELSE db' = db]_vars


\* C28: the start of a session happens once: the step that stamps started_at
\* is the join of the second participant and leaves both stored clocks at the
\* session's time control, and once stamped started_at is not stamped again.
C28_StartsOnce ==
    [][(db # NoGame /\ db' # NoGame)
       => /\ (db.started_at = NoTime /\ db'.started_at # NoTime)
             => /\ Len(db'.players) = 2
                /\ db'.white_time = db'.time_control * SecondsPerMinute
                /\ db'.black_time = db'.time_control * SecondsPerMinute
          /\ db.started_at # NoTime => db'.started_at = db.started_at]_vars


\* C29: a side of the stored row that is assigned to a participant stays
\* assigned to that participant as long as the row exists.
C29_SideKeepsParticipant ==
    [][(db # NoGame /\ db' # NoGame)
       => \A side \in Sides :
             AssignedTo(db, side) # Null => AssignedTo(db', side) = AssignedTo(db, side)]_vars


\* C30: an accepted rematch stores a fresh game: the time control and the
\* increment of the ended one, both clocks at that time control, the sides
\* swapped, an empty move log and notation, no pending offer, no outcome and
\* the instant of the acceptance as start.
C30_RematchIsFresh ==
    [][\A c \in Clients :
          RespondToRematch(c, TRUE, TRUE)
          => /\ db'.time_control = db.time_control
             /\ db'.increment = db.increment
             /\ db'.white_time = db.time_control * SecondsPerMinute
             /\ db'.black_time = db.time_control * SecondsPerMinute
             /\ db'.white_player = db.black_player
             /\ db'.black_player = db.white_player
             /\ db'.moves = <<>> /\ db'.pgn = EmptyPgn
             /\ \A k \in Pending : db'[k] = Null
             /\ db'.game_result = Null
             /\ db'.started_at = now]_vars


\* the stored session has started: two participants and a start timestamp
Active(row) == row # NoGame /\ Len(row.players) = 2 /\ row.started_at # NoTime

\* C31: a client that closes the page leaves the row of a started session
\* in the store as it is; only the row of a session that never started is
\* deleted.
C31_LeaveKeepsStartedSession ==
    [][\A c \in Clients : (Leave(c) /\ Active(db)) => db' = db]_vars


\* three browsers on the page of one game, pages being closed while the
\* clocks of the others run
NextAbandon ==
    \/ AdvanceTime
    \/ \E c \in Clients : InitFetch(c) \/ InitCreate(c) \/ InitJoin(c) \/ InitView(c)
    \/ \E c \in Clients : Deliver(c)
    \/ \E c \in Clients : Leave(c)
    \/ \E c \in Clients, ok \in BOOLEAN : Tick(c, ok)
SpecAbandon == InitThree /\ [][NextAbandon]_vars

\* C32: while the stored session has not started, both derived clocks read
\* the configured time control and no clock expiry is written to the row.
C32_NoClockBeforeStart ==
    /\ [](db # NoGame /\ ~Active(db)
          => \A side \in Sides :
                TimeLeft(side, db, now) = db.time_control * SecondsPerMinute)
    /\ [][\A c \in Clients : (Tick(c, TRUE) /\ db # NoGame) => Active(db)]_vars


\* C33: a snapshot put on the channel by an operation is the row the store
\* holds right after that operation's write.
C33_BroadcastIsStoredRow ==
    [][\A d \in Clients :
          Len(inbox'[d]) > Len(inbox[d]) => inbox'[d][Len(inbox'[d])] = db']_vars


\* no initialization is between its fetch and its write
NoneInFlight == \A c \in Clients : pc[c] # "fetched"

\* C34: when no operation is in flight and every broadcast has been handled,
\* the session state of every subscriber is the stored row.
C34_QuiescentViewsAgree ==
    (db # NoGame /\ NoneInFlight /\ Quiescent)
    => \A c \in Clients : (subscribed[c] /\ pc[c] = "ready") => gameState[c] = db


\* C35: in the stored row the turn is white exactly when the stored notation
\* holds an even number of plies.
C35_TurnMatchesNotation ==
    db # NoGame => (db.current_turn = "white" <=> Len(db.pgn.san) % 2 = 0)


\* the colours for which a client passes the ownership test of makeMove
OwnsColour(c, colour) == pc[c] = "ready" /\ playerColor[c] = colour

\* C36: no two clients of the session hold the same playing colour.
C36_ColourHeldOnce ==
    \A colour \in Sides :
       \A c, d \in Clients : (OwnsColour(c, colour) /\ OwnsColour(d, colour)) => c = d


\* the fields of the row that describe the game itself
GameFields == {"pgn", "moves", "current_turn", "players", "white_time", "black_time"}
\* an offer, a request, a decline or a resignation of client c that is stored
NegotiationBy(c) ==
    \/ OfferDraw(c, TRUE) \/ RequestTakeback(c, TRUE) \/ RequestRematch(c, TRUE)
    \/ RespondToDrawOffer(c, FALSE, TRUE)
    \/ RespondToTakeback(c, FALSE, TRUE)
    \/ RespondToRematch(c, FALSE, TRUE)
    \/ Resign(c, TRUE)

\* C37: a draw offer, a takeback request, a rematch offer, a decline of any
\* of them and a resignation leave the stored notation, move log, turn,
\* participants and both stored clocks as they were.
C37_NegotiationFrame ==
    [][\A c \in Clients : NegotiationBy(c) => \A k \in GameFields : db'[k] = db[k]]_vars
\* an offer has been stored on top of a game in which a move was played
C37_Witness ==
    /\ db # NoGame
    /\ Len(db.moves) > 0
    /\ \E k \in Pending : db[k] # Null


\* C38: a clock expiry written to the store is a loss for the side whose
\* turn it is in the stored row at that write.
C38_ForfeitHitsSideToMove ==
    [][\A c \in Clients :
          (Tick(c, TRUE) /\ db # NoGame)
          => db'.game_result = ResignResult(db.current_turn)]_vars
====
